---- MODULE Spec2Model ----
(***************************************************************************)
(* The xv6 buffer cache of kernel/bio.c: NBUF buffer slots, NHASH hash     *)
(* buckets each with a spinlock and a list, one free list with its own     *)
(* spinlock, one sleeplock per buffer.  Processes call bread, bwrite,      *)
(* brelse, bpin and bunpin concurrently; every spinlock acquisition, every *)
(* critical section, the sleeplock acquisition and the device transfer is  *)
(* a separate step of the calling process.                                 *)
(***************************************************************************)
EXTENDS Integers, Sequences, FiniteSets

(* ------------------------------ bounds -------------------------------- *)
NHASH == 13
NBUF == 2
NPROC == 2
NKEY == 4
MAXPIN == 1

Bufs == 1..NBUF
Procs == 1..NPROC
Buckets == 0..(NHASH - 1)
\* the (dev, blockno) pairs callers ask for: (1,0), (1,NHASH), (1,1), (2,0),
\* (2,NHASH), ...: the first two share bucket 0, the third lives in bucket 1,
\* the fourth has the first one's blockno on another device
Keys == {<<1 + (i \div 3), (IF i % 3 = 1 THEN NHASH ELSE 0) + (IF i % 3 = 2 THEN 1 ELSE 0)>> :
           i \in 0..(NKEY - 1)}

VARIABLES
  dev,            \* b->dev
  blockno,        \* b->blockno
  valid,          \* b->valid
  refcnt,         \* b->refcnt
  sleeplock,      \* b->lock: the pid holding it, 0 when unlocked
  hash_lock,      \* hash_table[h].lock: the holder, 0 when free
  hash_list,      \* hash_table[h].head list, head.next first
  freelist_lock,  \* freelist_lock: the holder, 0 when free
  freelist,       \* freelist_head list, head.next first
  pc,             \* each process's position
  cur,            \* each process's local b (0: none)
  arg,            \* each process's (dev, blockno) arguments of bread
  held,           \* buffers a process got from bread and has not passed to brelse
  pinned,         \* bpin calls not yet undone by bunpin, per buffer
  reads,          \* virtio_disk_rw(b, 0) transfers since b was last re-keyed
  panicked        \* "" or the message of the panic that stopped the kernel

vars == <<dev, blockno, valid, refcnt, sleeplock, hash_lock, hash_list,
          freelist_lock, freelist, pc, cur, arg, held, pinned, reads, panicked>>

bufvars == <<dev, blockno, valid, refcnt>>
listvars == <<hash_list, freelist>>
lockvars == <<hash_lock, freelist_lock>>

(* ------------------------------ helpers ------------------------------- *)
hash(n) == n % NHASH

Min(S) == CHOOSE x \in S : \A y \in S : x <= y

InList(s, b) == \E i \in DOMAIN s : s[i] = b

\* b->next->prev = b->prev; b->prev->next = b->next
Unlink(s, b) == SelectSeq(s, LAMBDA x : x # b)

\* b->next = head.next; b->prev = &head; head.next->prev = b; head.next = b
PushHead(s, b) == <<b>> \o s

holdingsleep(p, b) == sleeplock[b] = p

Goto(p, l) == pc' = [pc EXCEPT ![p] = l]

\* process p is at position l; a panic has stopped every process
At(p, l) == panicked = "" /\ pc[p] = l

\* the result of the binit loop over cache[0..NBUF-1], each pushed at the head
RECURSIVE binit_freelist(_)
binit_freelist(n) == IF n = 0 THEN <<>> ELSE PushHead(binit_freelist(n - 1), n)

Init ==
  /\ dev = [b \in Bufs |-> 0]
  /\ blockno = [b \in Bufs |-> 0]
  /\ valid = [b \in Bufs |-> 0]
  /\ refcnt = [b \in Bufs |-> 0]
  /\ sleeplock = [b \in Bufs |-> 0]
  /\ hash_lock = [h \in Buckets |-> 0]
  /\ hash_list = [h \in Buckets |-> <<>>]
  /\ freelist_lock = 0
  /\ freelist = binit_freelist(NBUF)
  /\ pc = [p \in Procs |-> "idle"]
  /\ cur = [p \in Procs |-> 0]
  /\ arg = [p \in Procs |-> <<0, 0>>]
  /\ held = [p \in Procs |-> {}]
  /\ pinned = [b \in Bufs |-> 0]
  /\ reads = [b \in Bufs |-> 0]
  /\ panicked = ""

(* -------------------------------- bread ------------------------------- *)
\* a process calls bread(d, n)
bread(p, d, n) ==
  /\ At(p, "idle")
  /\ Goto(p, "bget_acquire")
  /\ arg' = [arg EXCEPT ![p] = <<d, n>>]
  /\ UNCHANGED <<bufvars, sleeplock, lockvars, listvars, cur, held, pinned, reads, panicked>>

\* acquire(&hash_table[h].lock)
bget_acquire(p) ==
  /\ At(p, "bget_acquire")
  /\ hash_lock[hash(arg[p][2])] = 0
  /\ hash_lock' = [hash_lock EXCEPT ![hash(arg[p][2])] = p]
  /\ Goto(p, "bget_scan")
  /\ UNCHANGED <<bufvars, sleeplock, freelist_lock, listvars, cur, arg, held, pinned, reads, panicked>>

\* bget_hit returning at once, the acquiresleep forgotten
bget_hit_nosleep(p, h, b) ==
  /\ refcnt' = [refcnt EXCEPT ![b] = @ + 1]
  /\ hash_lock' = [hash_lock EXCEPT ![h] = 0]
  /\ cur' = [cur EXCEPT ![p] = b]
  /\ Goto(p, "bread_check")

\* bget_hit with the b->refcnt++ forgotten
bget_hit_noref(p, h, b) ==
  /\ hash_lock' = [hash_lock EXCEPT ![h] = 0]
  /\ cur' = [cur EXCEPT ![p] = b]
  /\ Goto(p, "bget_sleep")
  /\ UNCHANGED refcnt

\* bget_hit with the release of the bucket lock forgotten
bget_hit_nounlock(p, h, b) ==
  /\ refcnt' = [refcnt EXCEPT ![b] = @ + 1]
  /\ cur' = [cur EXCEPT ![p] = b]
  /\ Goto(p, "bget_sleep")
  /\ UNCHANGED hash_lock

\* a hit on b in bucket h: b->refcnt++; release(&hash_table[h].lock); the
\* sleeplock is taken next
bget_hit(p, h, b) ==
  /\ refcnt' = [refcnt EXCEPT ![b] = @ + 1]
  /\ hash_lock' = [hash_lock EXCEPT ![h] = 0]
  /\ cur' = [cur EXCEPT ![p] = b]
  /\ Goto(p, "bget_sleep")

\* bget_miss releasing the bucket lock before it goes to the free list
bget_miss_unlock(p, h) ==
  /\ Goto(p, "bget_acqfree")
  /\ hash_lock' = [hash_lock EXCEPT ![h] = 0]
  /\ UNCHANGED <<refcnt, cur>>

\* a miss in bucket h: on to the free list, the bucket lock still held
bget_miss(p, h) ==
  /\ Goto(p, "bget_acqfree")
  /\ UNCHANGED <<refcnt, hash_lock, cur>>

\* the scan of the bucket from head.next for the first buffer of that
\* (dev, blockno)
bget_scan(p) ==
  /\ At(p, "bget_scan")
  /\ LET h == hash(arg[p][2])
         s == hash_list[h]
         hits == {i \in DOMAIN s : dev[s[i]] = arg[p][1] /\ blockno[s[i]] = arg[p][2]}
     IN IF hits # {} THEN bget_hit(p, h, s[Min(hits)]) ELSE bget_miss(p, h)
  /\ UNCHANGED <<dev, blockno, valid, sleeplock, freelist_lock, listvars, arg, held, pinned, reads, panicked>>

\* acquire(&freelist_lock)
bget_acqfree(p) ==
  /\ At(p, "bget_acqfree")
  /\ freelist_lock = 0
  /\ freelist_lock' = p
  /\ Goto(p, "bget_free")
  /\ UNCHANGED <<bufvars, sleeplock, hash_lock, listvars, cur, arg, held, pinned, reads, panicked>>

\* b is unlinked from the free list and claimed
bget_take(p, b) ==
  /\ freelist' = Unlink(freelist, b)
  /\ cur' = [cur EXCEPT ![p] = b]
  /\ Goto(p, "bget_rekey")
  /\ UNCHANGED panicked

\* bget_nobuf going round the free list again instead of panicking
bget_nobuf_retry(p) ==
  /\ Goto(p, "bget_acqfree")
  /\ UNCHANGED <<freelist, cur, panicked>>

\* panic("bget: no buffers"), the bucket lock still held
bget_nobuf(p) ==
  /\ panicked' = "bget: no buffers"
  /\ Goto(p, "panic")
  /\ UNCHANGED <<freelist, cur>>

\* the scan of the free list from head.next for the first buffer with
\* refcnt 0; release(&freelist_lock) either way
bget_free(p) ==
  /\ At(p, "bget_free")
  /\ LET free == {i \in DOMAIN freelist : refcnt[freelist[i]] = 0}
     IN IF free # {} THEN bget_take(p, freelist[Min(free)]) ELSE bget_nobuf(p)
  /\ freelist_lock' = 0
  /\ UNCHANGED <<bufvars, sleeplock, hash_lock, hash_list, arg, held, pinned, reads>>

\* bget_rekey with the b->blockno = blockno forgotten
bget_rekey_noblockno(p) ==
  /\ At(p, "bget_rekey")
  /\ LET h == hash(arg[p][2])
         b == cur[p]
     IN /\ dev' = [dev EXCEPT ![b] = arg[p][1]]
        /\ valid' = [valid EXCEPT ![b] = 0]
        /\ refcnt' = [refcnt EXCEPT ![b] = 1]
        /\ reads' = [reads EXCEPT ![b] = 0]
        /\ hash_list' = [hash_list EXCEPT ![h] = PushHead(@, b)]
        /\ hash_lock' = [hash_lock EXCEPT ![h] = 0]
  /\ Goto(p, "bget_sleep")
  /\ UNCHANGED <<blockno, sleeplock, freelist_lock, freelist, cur, arg, held, pinned, panicked>>

\* the claimed buffer is re-keyed and linked at the head of the bucket
bget_rekey(p) ==
  /\ At(p, "bget_rekey")
  /\ LET h == hash(arg[p][2])
         b == cur[p]
     IN /\ dev' = [dev EXCEPT ![b] = arg[p][1]]
        /\ blockno' = [blockno EXCEPT ![b] = arg[p][2]]
        /\ valid' = [valid EXCEPT ![b] = 0]
        /\ refcnt' = [refcnt EXCEPT ![b] = 1]
        /\ reads' = [reads EXCEPT ![b] = 0]
        /\ hash_list' = [hash_list EXCEPT ![h] = PushHead(@, b)]
        /\ hash_lock' = [hash_lock EXCEPT ![h] = 0]
  /\ Goto(p, "bget_sleep")
  /\ UNCHANGED <<sleeplock, freelist_lock, freelist, cur, arg, held, pinned, panicked>>

\* acquiresleep(&b->lock)
bget_sleep(p) ==
  /\ At(p, "bget_sleep")
  /\ sleeplock[cur[p]] = 0
  /\ sleeplock' = [sleeplock EXCEPT ![cur[p]] = p]
  /\ Goto(p, "bread_check")
  /\ UNCHANGED <<bufvars, lockvars, listvars, cur, arg, held, pinned, reads, panicked>>

\* needs_read with the test of b->valid dropped
needs_read_always(b) == TRUE

\* if (!b->valid)
needs_read(b) == valid[b] = 0

\* bget has returned b: start the device read if needed, else return b
bread_check(p) ==
  /\ At(p, "bread_check")
  /\ IF needs_read(cur[p])
     THEN /\ Goto(p, "bread_io")
          /\ UNCHANGED <<cur, arg, held>>
     ELSE /\ Goto(p, "idle")
          /\ held' = [held EXCEPT ![p] = @ \cup {cur[p]}]
          /\ cur' = [cur EXCEPT ![p] = 0]
          /\ arg' = [arg EXCEPT ![p] = <<0, 0>>]
  /\ UNCHANGED <<bufvars, sleeplock, lockvars, listvars, pinned, reads, panicked>>

\* virtio_disk_rw(b, 0) completes; b->valid = 1; return b
bread_io(p) ==
  /\ At(p, "bread_io")
  /\ reads' = [reads EXCEPT ![cur[p]] = @ + 1]
  /\ valid' = [valid EXCEPT ![cur[p]] = 1]
  /\ Goto(p, "idle")
  /\ held' = [held EXCEPT ![p] = @ \cup {cur[p]}]
  /\ cur' = [cur EXCEPT ![p] = 0]
  /\ arg' = [arg EXCEPT ![p] = <<0, 0>>]
  /\ UNCHANGED <<dev, blockno, refcnt, sleeplock, lockvars, listvars, pinned, panicked>>

(* -------------------------------- bwrite ------------------------------ *)
\* if (!holdingsleep(&b->lock)) panic("bwrite")
bwrite_bad(p, b) == ~holdingsleep(p, b)

\* a process calls bwrite(b) on any buffer
bwrite(p, b) ==
  /\ At(p, "idle")
  /\ IF bwrite_bad(p, b)
     THEN /\ panicked' = "bwrite"
          /\ Goto(p, "panic")
          /\ UNCHANGED cur
     ELSE /\ Goto(p, "bwrite_io")
          /\ cur' = [cur EXCEPT ![p] = b]
          /\ UNCHANGED panicked
  /\ UNCHANGED <<bufvars, sleeplock, lockvars, listvars, arg, held, pinned, reads>>

\* virtio_disk_rw(b, 1) completes
bwrite_io(p) ==
  /\ At(p, "bwrite_io")
  /\ Goto(p, "idle")
  /\ cur' = [cur EXCEPT ![p] = 0]
  /\ UNCHANGED <<bufvars, sleeplock, lockvars, listvars, arg, held, pinned, reads, panicked>>

(* -------------------------------- brelse ------------------------------ *)
\* brelse_bad with the holdingsleep test dropped
brelse_bad_never(p, b) == FALSE

\* if (!holdingsleep(&b->lock)) panic("brelse")
brelse_bad(p, b) == ~holdingsleep(p, b)

\* a process calls brelse(b) on any buffer: panic unless it holds the
\* sleeplock, else releasesleep(&b->lock)
brelse(p, b) ==
  /\ At(p, "idle")
  /\ IF brelse_bad(p, b)
     THEN /\ panicked' = "brelse"
          /\ Goto(p, "panic")
          /\ UNCHANGED <<sleeplock, cur, held>>
     ELSE /\ sleeplock' = [sleeplock EXCEPT ![b] = 0]
          /\ held' = [held EXCEPT ![p] = @ \ {b}]
          /\ cur' = [cur EXCEPT ![p] = b]
          /\ Goto(p, "brelse_acquire")
          /\ UNCHANGED panicked
  /\ UNCHANGED <<bufvars, lockvars, listvars, arg, pinned, reads>>

\* h = hash(b->blockno); acquire(&hash_table[h].lock)
brelse_acquire(p) ==
  /\ At(p, "brelse_acquire")
  /\ hash_lock[hash(blockno[cur[p]])] = 0
  /\ hash_lock' = [hash_lock EXCEPT ![hash(blockno[cur[p]])] = p]
  /\ Goto(p, "brelse_dec")
  /\ UNCHANGED <<bufvars, sleeplock, freelist_lock, listvars, cur, arg, held, pinned, reads, panicked>>

\* brelse_dec leaving the buffer on its bucket list when refcnt reaches 0
brelse_dec_keep(p) ==
  /\ At(p, "brelse_dec")
  /\ LET b == cur[p]
     IN /\ refcnt' = [refcnt EXCEPT ![b] = @ - 1]
        /\ IF refcnt[b] - 1 = 0
           THEN /\ Goto(p, "brelse_acqfree")
                /\ UNCHANGED <<hash_lock, cur, listvars>>
           ELSE /\ hash_lock' = [h \in Buckets |-> IF hash_lock[h] = p THEN 0 ELSE hash_lock[h]]
                /\ cur' = [cur EXCEPT ![p] = 0]
                /\ Goto(p, "idle")
                /\ UNCHANGED listvars
  /\ UNCHANGED <<dev, blockno, valid, sleeplock, freelist_lock, arg, held, pinned, reads, panicked>>

\* b->refcnt--; at 0 the buffer is unlinked and the free list lock is wanted,
\* otherwise the bucket lock is released
brelse_dec(p) ==
  /\ At(p, "brelse_dec")
  /\ LET b == cur[p]
     IN /\ refcnt' = [refcnt EXCEPT ![b] = @ - 1]
        /\ IF refcnt[b] - 1 = 0
           THEN /\ hash_list' = [h \in Buckets |-> Unlink(hash_list[h], b)]
                /\ freelist' = Unlink(freelist, b)
                /\ Goto(p, "brelse_acqfree")
                /\ UNCHANGED <<hash_lock, cur>>
           ELSE /\ hash_lock' = [h \in Buckets |-> IF hash_lock[h] = p THEN 0 ELSE hash_lock[h]]
                /\ cur' = [cur EXCEPT ![p] = 0]
                /\ Goto(p, "idle")
                /\ UNCHANGED listvars
  /\ UNCHANGED <<dev, blockno, valid, sleeplock, freelist_lock, arg, held, pinned, reads, panicked>>

\* acquire(&freelist_lock)
brelse_acqfree(p) ==
  /\ At(p, "brelse_acqfree")
  /\ freelist_lock = 0
  /\ freelist_lock' = p
  /\ Goto(p, "brelse_push")
  /\ UNCHANGED <<bufvars, sleeplock, hash_lock, listvars, cur, arg, held, pinned, reads, panicked>>

\* brelse_push linking the buffer at the tail of the free list
brelse_push_tail(p) ==
  /\ At(p, "brelse_push")
  /\ freelist' = Append(freelist, cur[p])
  /\ freelist_lock' = 0
  /\ hash_lock' = [h \in Buckets |-> IF hash_lock[h] = p THEN 0 ELSE hash_lock[h]]
  /\ cur' = [cur EXCEPT ![p] = 0]
  /\ Goto(p, "idle")
  /\ UNCHANGED <<bufvars, sleeplock, hash_list, arg, held, pinned, reads, panicked>>

\* the buffer is pushed at the head of the free list; both locks are released
brelse_push(p) ==
  /\ At(p, "brelse_push")
  /\ freelist' = PushHead(freelist, cur[p])
  /\ freelist_lock' = 0
  /\ hash_lock' = [h \in Buckets |-> IF hash_lock[h] = p THEN 0 ELSE hash_lock[h]]
  /\ cur' = [cur EXCEPT ![p] = 0]
  /\ Goto(p, "idle")
  /\ UNCHANGED <<bufvars, sleeplock, hash_list, arg, held, pinned, reads, panicked>>

(* ---------------------------- bpin / bunpin --------------------------- *)
\* a process that holds b calls bpin(b)
bpin(p, b) ==
  /\ At(p, "idle")
  /\ b \in held[p]
  /\ pinned[b] < MAXPIN
  /\ cur' = [cur EXCEPT ![p] = b]
  /\ Goto(p, "bpin_acquire")
  /\ UNCHANGED <<bufvars, sleeplock, lockvars, listvars, arg, held, pinned, reads, panicked>>

\* h = hash(b->blockno); acquire(&hash_table[h].lock)
bpin_acquire(p) ==
  /\ At(p, "bpin_acquire")
  /\ hash_lock[hash(blockno[cur[p]])] = 0
  /\ hash_lock' = [hash_lock EXCEPT ![hash(blockno[cur[p]])] = p]
  /\ Goto(p, "bpin_inc")
  /\ UNCHANGED <<bufvars, sleeplock, freelist_lock, listvars, cur, arg, held, pinned, reads, panicked>>

\* b->refcnt++; release(&hash_table[h].lock)
bpin_inc(p) ==
  /\ At(p, "bpin_inc")
  /\ refcnt' = [refcnt EXCEPT ![cur[p]] = @ + 1]
  /\ pinned' = [pinned EXCEPT ![cur[p]] = @ + 1]
  /\ hash_lock' = [h \in Buckets |-> IF hash_lock[h] = p THEN 0 ELSE hash_lock[h]]
  /\ cur' = [cur EXCEPT ![p] = 0]
  /\ Goto(p, "idle")
  /\ UNCHANGED <<dev, blockno, valid, sleeplock, freelist_lock, listvars, arg, held, reads, panicked>>

\* a process calls bunpin(b) to undo an earlier bpin(b)
bunpin(p, b) ==
  /\ At(p, "idle")
  /\ pinned[b] > 0
  /\ pinned' = [pinned EXCEPT ![b] = @ - 1]
  /\ cur' = [cur EXCEPT ![p] = b]
  /\ Goto(p, "bunpin_acquire")
  /\ UNCHANGED <<bufvars, sleeplock, lockvars, listvars, arg, held, reads, panicked>>

\* h = hash(b->blockno); acquire(&hash_table[h].lock)
bunpin_acquire(p) ==
  /\ At(p, "bunpin_acquire")
  /\ hash_lock[hash(blockno[cur[p]])] = 0
  /\ hash_lock' = [hash_lock EXCEPT ![hash(blockno[cur[p]])] = p]
  /\ Goto(p, "bunpin_dec")
  /\ UNCHANGED <<bufvars, sleeplock, freelist_lock, listvars, cur, arg, held, pinned, reads, panicked>>

\* bunpin_dec returning the buffer to the free list when refcnt reaches 0
bunpin_dec_recycle(p) ==
  /\ At(p, "bunpin_dec")
  /\ refcnt' = [refcnt EXCEPT ![cur[p]] = @ - 1]
  /\ IF refcnt[cur[p]] - 1 = 0
     THEN /\ hash_list' = [h \in Buckets |-> Unlink(hash_list[h], cur[p])]
          /\ freelist' = PushHead(freelist, cur[p])
     ELSE UNCHANGED listvars
  /\ hash_lock' = [h \in Buckets |-> IF hash_lock[h] = p THEN 0 ELSE hash_lock[h]]
  /\ cur' = [cur EXCEPT ![p] = 0]
  /\ Goto(p, "idle")
  /\ UNCHANGED <<dev, blockno, valid, sleeplock, freelist_lock, arg, held, pinned, reads, panicked>>

\* b->refcnt--; release(&hash_table[h].lock)
bunpin_dec(p) ==
  /\ At(p, "bunpin_dec")
  /\ refcnt' = [refcnt EXCEPT ![cur[p]] = @ - 1]
  /\ hash_lock' = [h \in Buckets |-> IF hash_lock[h] = p THEN 0 ELSE hash_lock[h]]
  /\ cur' = [cur EXCEPT ![p] = 0]
  /\ Goto(p, "idle")
  /\ UNCHANGED <<dev, blockno, valid, sleeplock, freelist_lock, listvars, arg, held, pinned, reads, panicked>>

(* ------------------------------ the system ---------------------------- *)
Next ==
  \E p \in Procs :
     \/ \E k \in Keys : bread(p, k[1], k[2])
     \/ bget_acquire(p)
     \/ bget_scan(p)
     \/ bget_acqfree(p)
     \/ bget_free(p)
     \/ bget_rekey(p)
     \/ bget_sleep(p)
     \/ bread_check(p)
     \/ bread_io(p)
     \/ \E b \in Bufs : bwrite(p, b)
     \/ bwrite_io(p)
     \/ \E b \in Bufs : brelse(p, b)
     \/ brelse_acquire(p)
     \/ brelse_dec(p)
     \/ brelse_acqfree(p)
     \/ brelse_push(p)
     \/ \E b \in Bufs : bpin(p, b)
     \/ bpin_acquire(p)
     \/ bpin_inc(p)
     \/ \E b \in Bufs : bunpin(p, b)
     \/ bunpin_acquire(p)
     \/ bunpin_dec(p)

Spec == Init /\ [][Next]_vars

(* --------------------- well-behaved callers, fair scheduling ---------- *)
\* callers that keep the contract: a process holds one buffer at a time, and
\* passes to bwrite and brelse only a buffer it holds
bread_one(p, d, n) == held[p] = {} /\ bread(p, d, n)
bwrite_held(p, b) == b \in held[p] /\ bwrite(p, b)
brelse_held(p, b) == b \in held[p] /\ brelse(p, b)

\* the steps of process p inside a call
Step(p) ==
  \/ bget_acquire(p) \/ bget_scan(p) \/ bget_acqfree(p) \/ bget_free(p)
  \/ bget_rekey(p) \/ bget_sleep(p) \/ bread_check(p) \/ bread_io(p)
  \/ bwrite_io(p)
  \/ brelse_acquire(p) \/ brelse_dec(p) \/ brelse_acqfree(p) \/ brelse_push(p)
  \/ bpin_acquire(p) \/ bpin_inc(p)
  \/ bunpin_acquire(p) \/ bunpin_dec(p)

\* process p releases the buffer it holds
Release(p) == \E b \in Bufs : brelse_held(p, b)

LiveNext ==
  \E p \in Procs :
     \/ \E k \in Keys : bread_one(p, k[1], k[2])
     \/ \E b \in Bufs : bwrite_held(p, b)
     \/ \E b \in Bufs : brelse_held(p, b)
     \/ \E b \in Bufs : bpin(p, b)
     \/ \E b \in Bufs : bunpin(p, b)
     \/ Step(p)

\* a process that can take a step again and again takes it (a lock that comes
\* free again and again is eventually won), and a holder eventually releases
LiveSpec ==
  /\ Init
  /\ [][LiveNext]_vars
  /\ \A p \in Procs : SF_vars(Step(p)) /\ SF_vars(Release(p))


(* ------------------------------- claims ------------------------------- *)
\* b is on some bucket's list
Indexed(b) == \E h \in Buckets : InList(hash_list[h], b)

\* the processes that have content access to b: bread has returned b to them,
\* or they are past bget's acquiresleep inside bread
Using(b) ==
  {p \in Procs : b \in held[p] \/ (cur[p] = b /\ pc[p] \in {"bread_check", "bread_io"})}

\* C1: at most one process at a time has content access to a buffer, and that
\* process is the holder of the buffer's sleeplock, from the moment bget has
\* acquired it until the process's brelse.
C1_Exclusive ==
  \A b \in Bufs :
    /\ Cardinality(Using(b)) <= 1
    /\ \A p \in Using(b) : sleeplock[b] = p

\* a process holds a buffer while another one, having taken its reference,
\* waits for the sleeplock
C1_Witness ==
  \E b \in Bufs, p, q \in Procs :
    p # q /\ b \in held[p] /\ pc[q] = "bget_sleep" /\ cur[q] = b

\* process p returns from bread in this step
BreadReturns(p) == pc[p] \in {"bread_check", "bread_io"} /\ pc'[p] = "idle"

\* C2: when bread(dev, blockno) returns b, the caller holds b's sleeplock, b
\* carries exactly (dev, blockno), b is valid and b->refcnt >= 1.
C2_BreadPost ==
  [][\A p \in Procs :
       BreadReturns(p) =>
         /\ cur[p] \in held'[p]
         /\ sleeplock'[cur[p]] = p
         /\ dev'[cur[p]] = arg[p][1]
         /\ blockno'[cur[p]] = arg[p][2]
         /\ valid'[cur[p]] = 1
         /\ refcnt'[cur[p]] >= 1]_vars

\* two processes hold two buffers of the same blockno on different devices,
\* one of them also pinned
C2_Witness ==
  \E p, q \in Procs, b, c \in Bufs :
    /\ p # q /\ b \in held[p] /\ c \in held[q]
    /\ blockno[b] = blockno[c] /\ dev[b] # dev[c]
    /\ refcnt[b] = 2

\* C3: no two buffers on the bucket lists carry the same (dev, blockno), and a
\* buffer somebody has a reference to is on a bucket list: a referenced block
\* is represented by exactly one buffer.
C3_OneSlotPerBlock ==
  /\ \A b, c \in Bufs :
       (Indexed(b) /\ Indexed(c) /\ dev[b] = dev[c] /\ blockno[b] = blockno[c]) => b = c
  /\ \A b \in Bufs : (\E p \in Procs : b \in held[p]) => Indexed(b)

\* two processes have a reference to the same buffer, which shares its bucket
\* with a buffer of another block
C3_Witness ==
  \E b \in Bufs :
    /\ refcnt[b] = 2 /\ pinned[b] = 0
    /\ InList(hash_list[hash(blockno[b])], b)
    /\ Len(hash_list[hash(blockno[b])]) = 2

\* somebody has a reference to b: a holder, a process between bget's lookup
\* and bread's return, or an outstanding pin
Referenced(b) ==
  \/ pinned[b] > 0
  \/ \E p \in Procs :
       \/ b \in held[p]
       \/ cur[p] = b /\ pc[p] \in {"bget_sleep", "bread_check", "bread_io"}

\* C4: bget re-keys a buffer only when its refcnt is 0, its sleeplock is free
\* and nobody holds or waits for it; dev and blockno of a buffer somebody has a
\* reference to never change.
C4_NoRecycleInUse ==
  [][/\ \A p \in Procs :
          (pc[p] = "bget_rekey" /\ pc'[p] # "bget_rekey") =>
            /\ refcnt[cur[p]] = 0
            /\ sleeplock[cur[p]] = 0
            /\ ~Referenced(cur[p])
     /\ \A b \in Bufs :
          Referenced(b) => (dev'[b] = dev[b] /\ blockno'[b] = blockno[b])]_vars

\* a buffer that carried another block before is about to be re-keyed
C4_Witness ==
  \E p \in Procs :
    /\ pc[p] = "bget_rekey"
    /\ dev[cur[p]] # 0
    /\ <<dev[cur[p]], blockno[cur[p]]>> # arg[p]

C6_OneRead ==
  \A b \in Bufs :
    /\ reads[b] <= 1
    /\ (valid[b] = 1) <=> (reads[b] = 1)
    /\ \A p \in Procs : (pc[p] = "bread_io" /\ cur[p] = b) => (valid[b] = 0 /\ sleeplock[b] = p)
    /\ \A p \in Procs : b \in held[p] => (valid[b] = 1 /\ reads[b] = 1)

\* a buffer read once has been returned to two processes: one is already in
\* brelse, the other holds it
C6_Witness ==
  \E b \in Bufs, p, q \in Procs :
    /\ p # q /\ b \in held[p] /\ reads[b] = 1
    /\ pc[q] = "brelse_acquire" /\ cur[q] = b

\* C7: a miss that finds the free list empty panics with "bget: no buffers"
\* and changes nothing else; a miss that finds a buffer there takes it.  With
\* no brelse on its way to the free list, the free list is empty exactly when
\* all NBUF buffers have been claimed, so with NBUF buffers held the next miss
\* panics and every earlier one succeeds.
C7_Exhaustion ==
  [][\A p \in Procs :
       (pc[p] = "bget_free" /\ pc'[p] # "bget_free") =>
         /\ (freelist = <<>>) <=> (panicked' = "bget: no buffers")
         /\ (\A q \in Procs : pc[q] \notin {"brelse_acqfree", "brelse_push"}) =>
              ((freelist = <<>>) <=>
                 (\A b \in Bufs : Indexed(b) \/ \E q \in Procs : pc[q] = "bget_rekey" /\ cur[q] = b))
         /\ (\A b \in Bufs : \E q \in Procs : b \in held[q]) => panicked' = "bget: no buffers"
         /\ panicked' = "bget: no buffers" =>
              UNCHANGED <<bufvars, sleeplock, listvars, held, pinned, reads>>
         /\ panicked' = "" =>
              /\ pc'[p] = "bget_rekey"
              /\ InList(freelist, cur'[p])
              /\ refcnt[cur'[p]] = 0
              /\ sleeplock[cur'[p]] = 0]_vars

\* all NBUF buffers are held, for NBUF different blocks, none released, and a
\* miss for a further block has panicked
C7_Witness ==
  /\ panicked = "bget: no buffers"
  /\ \A b \in Bufs : refcnt[b] = 1 /\ \E q \in Procs : b \in held[q]
  /\ \A b, c \in Bufs : b # c => <<dev[b], blockno[b]>> # <<dev[c], blockno[c]>>
  /\ \E p \in Procs : pc[p] = "panic" /\ \A b \in Bufs : <<dev[b], blockno[b]>> # arg[p]

\* C8: bwrite and brelse go ahead only for the holder of the buffer's
\* sleeplock; for any other caller they panic, and the panic changes no
\* buffer, lock or list and starts no device write.
C8_FatalMisuse ==
  [][\A p \in Procs :
       /\ (pc[p] = "idle" /\ pc'[p] = "brelse_acquire") =>
            (sleeplock[cur'[p]] = p /\ cur'[p] \in held[p])
       /\ (pc[p] = "idle" /\ pc'[p] = "bwrite_io") =>
            (sleeplock[cur'[p]] = p /\ cur'[p] \in held[p])
       /\ (pc[p] = "idle" /\ pc'[p] = "panic") =>
            /\ panicked' \in {"brelse", "bwrite"}
            /\ UNCHANGED <<bufvars, sleeplock, lockvars, listvars, cur, held, pinned, reads>>
            /\ \A q \in Procs : pc'[q] # "bwrite_io" \/ pc[q] = "bwrite_io"]_vars

\* a brelse has panicked although a buffer released before lies on the free
\* list and another buffer is held by somebody
C8_Witness ==
  /\ panicked = "brelse"
  /\ \E b \in Bufs : InList(freelist, b) /\ dev[b] # 0 /\ refcnt[b] = 0
  /\ \E c \in Bufs : sleeplock[c] # 0

C10_Lifo ==
  [][\A p \in Procs :
       /\ (pc[p] = "brelse_push" /\ pc'[p] # "brelse_push") =>
            (freelist' # <<>> /\ Head(freelist') = cur[p] /\ Tail(freelist') = freelist)
       /\ (pc[p] = "bget_free" /\ pc'[p] = "bget_rekey") =>
            (cur'[p] = Head(freelist) /\ freelist' = Tail(freelist))]_vars

\* a miss has taken the buffer released last and left on the free list one
\* that was released before it
C10_Witness ==
  \E p \in Procs :
    /\ pc[p] = "bget_rekey"
    /\ dev[cur[p]] # 0
    /\ freelist # <<>>
    /\ dev[Head(freelist)] # 0

\* process p is inside bpin or bunpin
InPin(p) ==
  pc[p] \in {"bpin_acquire", "bpin_inc", "bunpin_acquire", "bunpin_dec"}

\* C11: bpin adds exactly 1 to b->refcnt and bunpin takes exactly 1 away, so a
\* bpin followed by a bunpin leaves it as it was; no step of bpin or bunpin
\* changes a list, also when bunpin brings refcnt to 0; a buffer joins the
\* free list only in brelse, after brelse has brought its refcnt to 0.
C11_PinUnpin ==
  [][/\ \A p \in Procs :
          /\ (pc'[p] # pc[p] /\ (InPin(p) \/ InPin(p)')) => UNCHANGED listvars
          /\ (pc[p] = "bpin_inc" /\ pc'[p] # "bpin_inc") =>
               refcnt' = [refcnt EXCEPT ![cur[p]] = @ + 1]
          /\ (pc[p] = "bunpin_dec" /\ pc'[p] # "bunpin_dec") =>
               refcnt' = [refcnt EXCEPT ![cur[p]] = @ - 1]
          /\ (pc'[p] # pc[p] /\ InPin(p)') => UNCHANGED refcnt
     /\ \A b \in Bufs :
          (~InList(freelist, b) /\ InList(freelist', b)) =>
            \E p \in Procs : pc[p] = "brelse_push" /\ cur[p] = b /\ refcnt[b] = 0]_vars

\* after a bpin, the holder's brelse and a bunpin the buffer has refcnt 0, is
\* valid and still on its bucket list, not on the free list, and nobody is
\* inside a call
C11_Witness ==
  \E b \in Bufs :
    /\ refcnt[b] = 0 /\ valid[b] = 1 /\ pinned[b] = 0
    /\ InList(hash_list[hash(blockno[b])], b)
    /\ ~InList(freelist, b)
    /\ \A p \in Procs : pc[p] = "idle"

\* a buffer on the free list has no reference, is on no bucket list and its
\* sleeplock is free
PoolClean ==
  \A b \in Bufs : InList(freelist, b) => (refcnt[b] = 0 /\ ~Indexed(b) /\ sleeplock[b] = 0)

\* C12: the brelse that brings refcnt from 1 to 0 takes the buffer off its
\* bucket list and puts it on the free list, where the bucket scan does not
\* find it: a bread of a block no bucket list carries is a miss even when a
\* buffer on the free list still carries that block with valid set, the miss
\* clears valid, and bread returns only after a device read of its own.
C12_ReleaseForgets ==
  [][/\ PoolClean /\ PoolClean'
     /\ \A p \in Procs :
          /\ (pc[p] = "brelse_dec" /\ pc'[p] # "brelse_dec" /\ refcnt[cur[p]] = 1) =>
               (~Indexed(cur[p])' /\ pc'[p] = "brelse_acqfree")
          /\ (pc[p] = "brelse_push" /\ pc'[p] # "brelse_push") =>
               (InList(freelist', cur[p]) /\ ~Indexed(cur[p])')
          /\ (pc[p] = "bget_scan" /\ pc'[p] # "bget_scan") =>
               IF \E b \in Bufs : Indexed(b) /\ <<dev[b], blockno[b]>> = arg[p]
               THEN pc'[p] = "bget_sleep" /\ Indexed(cur'[p])
               ELSE pc'[p] = "bget_acqfree"
          /\ (pc[p] = "bget_rekey" /\ pc'[p] # "bget_rekey") =>
               (valid'[cur[p]] = 0 /\ reads'[cur[p]] = 0)
          /\ (pc[p] = "bread_check" /\ pc'[p] = "idle") => valid[cur[p]] = 1
          /\ BreadReturns(p) => reads'[cur[p]] = 1]_vars

\* a bread has missed for a block and claimed from the free list the very
\* buffer that still carries that block, valid from its earlier life
C12_Witness ==
  \E p \in Procs :
    /\ pc[p] = "bget_rekey"
    /\ <<dev[cur[p]], blockno[cur[p]]>> = arg[p]
    /\ valid[cur[p]] = 1
    /\ refcnt[cur[p]] = 0

\* the bucket locks process p holds
BucketsHeld(p) == {h \in Buckets : hash_lock[h] = p}

C14_NoSleepUnderSpinlock ==
  \A p \in Procs :
    pc[p] \in {"bget_sleep", "bread_check", "bread_io", "bwrite_io"} =>
      (BucketsHeld(p) = {} /\ freelist_lock # p)

\* a process is blocked in acquiresleep on a buffer whose holder has a device
\* write under way
C14_Witness ==
  \E p, q \in Procs :
    /\ pc[p] = "bget_sleep" /\ pc[q] = "bwrite_io"
    /\ cur[p] = cur[q]
    /\ sleeplock[cur[p]] = q

\* the number of lists (bucket lists and the free list) that b is linked on
NListsOn(b) ==
  Cardinality({h \in Buckets : InList(hash_list[h], b)})
    + (IF InList(freelist, b) THEN 1 ELSE 0)

NoDup(s) == \A i, j \in DOMAIN s : s[i] = s[j] => i = j

\* b is being moved between lists by p, under the bucket lock: by a miss
\* between the unlink from the free list and the link on the bucket, or by
\* brelse between the unlink from the bucket and the link on the free list
Moving(p, b) ==
  /\ cur[p] = b
  /\ \/ pc[p] = "bget_rekey" /\ hash_lock[hash(arg[p][2])] = p
     \/ pc[p] \in {"brelse_acqfree", "brelse_push"} /\ hash_lock[hash(blockno[b])] = p

\* C15 as stated: every buffer is on exactly one list in every state.
C15_ExactlyOneList == \A b \in Bufs : NListsOn(b) = 1

\* C15: binit leaves all NBUF buffers on the free list and every bucket
\* empty; afterwards every list holds only buffers of cache[], each at most
\* once, no buffer is ever on two lists, and a buffer is on no list only
\* while the miss path of bget or brelse is moving it under the bucket lock.
C15_ListMembership ==
  /\ (freelist = binit_freelist(NBUF) /\ \A h \in Buckets : hash_list[h] = <<>>)
  /\ [](/\ NoDup(freelist)
        /\ \A i \in DOMAIN freelist : freelist[i] \in Bufs
        /\ \A h \in Buckets :
             NoDup(hash_list[h]) /\ \A i \in DOMAIN hash_list[h] : hash_list[h][i] \in Bufs
        /\ \A b \in Bufs :
             /\ NListsOn(b) <= 1
             /\ NListsOn(b) = 0 => \E p \in Procs : Moving(p, b))

\* brelse has unlinked a buffer from its bucket and not yet pushed it on the
\* free list, while the other buffer is on a bucket list
C15_Witness ==
  \E p \in Procs, b \in Bufs :
    /\ pc[p] = "brelse_acqfree"
    /\ NListsOn(cur[p]) = 0
    /\ b # cur[p] /\ Indexed(b)

\* no call into the buffer cache is under way
Quiescent == \A p \in Procs : pc[p] = "idle"

\* C16: whenever no operation is under way, a buffer is on a bucket list
\* exactly if its refcnt is at least 1 and on the free list exactly if its
\* refcnt is 0.
C16_IndexedIffReferenced ==
  Quiescent =>
    \A b \in Bufs :
      /\ Indexed(b) <=> refcnt[b] >= 1
      /\ InList(freelist, b) <=> refcnt[b] = 0

\* C17: while a process holds a buffer's sleeplock the buffer's refcnt is at
\* least 1, whatever the other processes do meanwhile.
C17_HeldIsReferenced ==
  \A b \in Bufs : sleeplock[b] # 0 => refcnt[b] >= 1

\* p holds b with one pin outstanding, and another process is about to drop
\* the pin
C17_Witness ==
  \E p, q \in Procs, b \in Bufs :
    /\ p # q
    /\ sleeplock[b] = p /\ b \in held[p]
    /\ pc[q] = "bunpin_dec" /\ cur[q] = b
    /\ refcnt[b] = 2

\* p has missed in the bucket of its block and has not yet linked a buffer
MissPath(p) == pc[p] \in {"bget_acqfree", "bget_free", "bget_rekey"}

\* q has called bread for the block that p is missing on
SameMiss(p, q) ==
  /\ p # q
  /\ MissPath(p)
  /\ pc[q] = "bget_acquire"
  /\ arg[q] = arg[p]

C19_PanicOnlyWhenAllReferenced ==
  panicked = "bget: no buffers" => \A b \in Bufs : refcnt[b] >= 1

\* the bucket whose list b is linked on
BucketOf(b) == CHOOSE h \in Buckets : InList(hash_list[h], b)

\* C20: every buffer on the list of bucket h has hash(blockno) = h, so the
\* lock that brelse, bpin and bunpin take from b->blockno is the lock of the
\* list b is on, and every change of the refcnt of a buffer that is on a
\* bucket list is made by a process holding the lock of that bucket.
C20_BucketOfHash ==
  /\ [](/\ \A h \in Buckets : \A i \in DOMAIN hash_list[h] :
             hash(blockno[hash_list[h][i]]) = h
        /\ \A p \in Procs :
             pc[p] \in {"brelse_dec", "bpin_inc", "bunpin_dec"} =>
               /\ Indexed(cur[p])
               /\ hash_lock[BucketOf(cur[p])] = p)
  /\ [][\A b \in Bufs :
          refcnt'[b] # refcnt[b] =>
            /\ Indexed(b) =>
                 \E p \in Procs : pc'[p] # pc[p] /\ hash_lock[BucketOf(b)] = p
            /\ Indexed(b)' =>
                 \E p \in Procs : pc'[p] # pc[p] /\ hash_lock[BucketOf(b)'] = p]_vars

\* bunpin is about to decrement a buffer of bucket 1 under that bucket's
\* lock, while the other buffer is on bucket 0
C20_Witness ==
  \E p \in Procs, b \in Bufs :
    /\ pc[p] = "bunpin_dec"
    /\ InList(hash_list[1], cur[p])
    /\ hash_lock[1] = p
    /\ InList(hash_list[0], b)

====
